---- MODULE Spec2Model ----
(***************************************************************************)
(* Model of the iCloud MCP server: the lazily initialised session of       *)
(* server.py (_get_api), the tool dispatcher (call_tool), the Keychain     *)
(* credential lookup of auth.py and the calendar / mail / reminders        *)
(* adapters under tools/.                                                  *)
(*                                                                         *)
(* Python values are modelled as follows.  None is the string "None".      *)
(* A raised exception is a record with a class and a message.  Text that   *)
(* the program only passes through is an opaque string.                    *)
(***************************************************************************)
EXTENDS Integers, Sequences, FiniteSets, TLC

\* ------------------------------------------------------------------------
\* Bounds of the model
\* ------------------------------------------------------------------------
MaxCalls == 3
MaxPending == 2

\* ------------------------------------------------------------------------
\* Python values
\* ------------------------------------------------------------------------
None == "None"
NoExc == [cls |-> "NoExc", msg |-> ""]
Exc(cls, msg) == [cls |-> cls, msg |-> msg]

\* Python truthiness of an optional string: None and "" are falsy.
Truthy(v) == v # None /\ v # ""

\* ------------------------------------------------------------------------
\* auth.py
\* ------------------------------------------------------------------------
SERVICE == "icloud-mcp"
KEY_APPLE_ID == "apple_id"
KEY_APP_PASSWORD == "app_specific_password"

MsgNotConfigured == "iCloud credentials not found in Keychain.\nRun: uv run python3 auth.py store"
MsgLoginFailed == "iCloud login failed. Check your credentials: python auth.py verify"
Msg2faRejected == "2FA code was not accepted by Apple."

\* The values the Keychain can answer for one key: nothing stored, an empty
\* string, or a stored value.
AppleIds == {None, "", "a@example.com"}
AppPasswords == {None, "s3cr3t"}
KeyringStates == [apple_id : AppleIds, app_specific_password : AppPasswords]

\* get_credentials(): the pair, or RuntimeError when either entry is falsy.
get_credentials_wrong(kr) ==
    IF ~Truthy(kr[KEY_APPLE_ID]) /\ ~Truthy(kr[KEY_APP_PASSWORD])
    THEN [exc |-> Exc("RuntimeError", MsgNotConfigured), apple_id |-> None, app_password |-> None]
    ELSE [exc |-> NoExc, apple_id |-> kr[KEY_APPLE_ID], app_password |-> kr[KEY_APP_PASSWORD]]

get_credentials(kr) ==
    IF ~Truthy(kr[KEY_APPLE_ID]) \/ ~Truthy(kr[KEY_APP_PASSWORD])
    THEN [exc |-> Exc("RuntimeError", MsgNotConfigured), apple_id |-> None, app_password |-> None]
    ELSE [exc |-> NoExc, apple_id |-> kr[KEY_APPLE_ID], app_password |-> kr[KEY_APP_PASSWORD]]

\* ------------------------------------------------------------------------
\* Values returned by the adapters.  Every value is a record with a kind:
\* "null" (None), "list" (items), "dict" (item) or "bool" (flag).
\* ------------------------------------------------------------------------
NoItem == [uid |-> None]
Null == [kind |-> "null", items |-> << >>, item |-> NoItem, flag |-> FALSE]
ListOf(xs) == [kind |-> "list", items |-> xs, item |-> NoItem, flag |-> FALSE]
DictOf(d) == [kind |-> "dict", items |-> << >>, item |-> d, flag |-> FALSE]
BoolOf(b) == [kind |-> "bool", items |-> << >>, item |-> NoItem, flag |-> b]

\* What one adapter call does: the exception it raises (or NoExc), the value
\* it returns, and the backend stores as it leaves them.
Eff(exc, value, cal, rem, out) ==
    [exc |-> exc, value |-> value, cal |-> cal, rem |-> rem, out |-> out]

RECURSIVE Concat(_)
Concat(ss) == IF ss = << >> THEN << >> ELSE Head(ss) \o Concat(Tail(ss))

\* Python's s[::-1].
Reverse(s) == [i \in 1..Len(s) |-> s[Len(s) + 1 - i]]

Range(s) == {s[i] : i \in DOMAIN s}

\* The account the backends know: Basic Auth succeeds with this pair only.
AccountId == "a@example.com"
AccountPassword == "s3cr3t"
ValidLogin(apple_id, app_password) ==
    apple_id = AccountId /\ app_password = AccountPassword

\* ------------------------------------------------------------------------
\* Dates.  An instant is a number of days on a small calendar; a datetime is
\* a record [t, us, tz]: the instant, its microsecond part and whether the
\* value is naive or carries the UTC zone.
\* ------------------------------------------------------------------------
DefaultWindowDays == 7
Now == [t |-> 1, us |-> 0, tz |-> "UTC"]

\* The date texts a caller passes.  dateparser.parse reads each into a
\* datetime or raises ParserError (a ValueError).
DateTexts == {"2025-03-01T10:00:00", "2025-03-01T10:00:00.5",
              "2025-03-02T10:00:00Z", "2025-03-20", "next-ish"}
Parsable(text) == text # "next-ish"
parse(text) ==
    CASE text = "2025-03-01T10:00:00"   -> [t |-> 2, us |-> 0, tz |-> "naive"]
      [] text = "2025-03-01T10:00:00.5" -> [t |-> 2, us |-> 500000, tz |-> "naive"]
      [] text = "2025-03-02T10:00:00Z"  -> [t |-> 3, us |-> 0, tz |-> "UTC"]
      [] text = "2025-03-20"            -> [t |-> 20, us |-> 0, tz |-> "naive"]
      [] OTHER                          -> [t |-> 0, us |-> 0, tz |-> "naive"]
MsgParserError == "Unknown string format"

\* datetime.isoformat(): the text shows the microseconds when they are not
\* zero and the offset when the value is aware, so it tells datetimes apart.
isoformat(dt) == << dt.t, dt.us, dt.tz >>

\* The iCalendar DATE-TIME written by ical.to_ical(): YYYYMMDDTHHMMSS, with a
\* trailing Z for UTC.  The form has no field for a fraction of a second.
to_ical_dt(dt) == << dt.t, dt.tz >>
\* iCalendar.from_ical() reading a DATE-TIME back into a datetime.
from_ical_dt(w) == [t |-> w[1], us |-> 0, tz |-> w[2]]

plus_days(dt, n) == [dt EXCEPT !.t = dt.t + n]

\* ------------------------------------------------------------------------
\* tools/calendar.py
\* ------------------------------------------------------------------------
\* principal.calendars(): the account's calendars, in the server's order.
Calendars == << [id |-> "home", name |-> "Home"], [id |-> "work", name |-> "Work"] >>
CalendarIds == {Calendars[i].id : i \in DOMAIN Calendars}

\* client.principal(): Basic Auth is checked by the server on the first
\* request; the request fails when the server cannot be reached.
principal(apple_id, app_password, net) ==
    IF ~net THEN Exc("ConnectionError", "caldav.icloud.com unreachable")
    ELSE IF ~ValidLogin(apple_id, app_password) THEN Exc("AuthorizationError", "Unauthorized")
    ELSE NoExc

fmt_calendar(c) == [uid |-> c.id, title |-> c.name]

\* _fmt_event: the plain dict of a stored VEVENT; a property the component
\* does not carry reads as "".
fmt_event(vevent, calname) ==
    [uid |-> vevent.uid,
     title |-> vevent.summary,
     start |-> isoformat(from_ical_dt(vevent.dtstart)),
     end |-> isoformat(from_ical_dt(vevent.dtend)),
     location |-> IF vevent.location = None THEN "" ELSE vevent.location,
     description |-> IF vevent.description = None THEN "" ELSE vevent.description,
     calendar |-> calname]

list_calendars(apple_id, app_password, net, cal, rem, out) ==
    LET p == principal(apple_id, app_password, net) IN
    IF p # NoExc THEN Eff(p, Null, cal, rem, out)
    ELSE Eff(NoExc, ListOf([i \in DOMAIN Calendars |-> fmt_calendar(Calendars[i])]), cal, rem, out)

\* cal.search(start, end, event=True): the events of one calendar that
\* overlap the time range.
InRange(vevent, start, end) ==
    /\ from_ical_dt(vevent.dtstart).t < end.t
    /\ from_ical_dt(vevent.dtend).t > start.t

\* The elements s[i] with keep[i], in order (a list comprehension with an if).
SelectSeqBy(s, keep) ==
    LET pairs == [i \in DOMAIN s |-> << s[i], keep[i] >>]
        kept == SelectSeq(pairs, LAMBDA p : p[2])
    IN [i \in DOMAIN kept |-> kept[i][1]]

\* The calendars kept by `if calendar_uid:` (lines 89-90, 169-170).
CalendarsMatching(calendar_uid) ==
    IF Truthy(calendar_uid)
    THEN SelectSeqBy(Calendars, [i \in DOMAIN Calendars |-> Calendars[i].id = calendar_uid])
    ELSE Calendars

\* The loop body of list_events for one calendar: a failing search hits
\* `except Exception: continue` and contributes nothing.
EventsOfCalendar(c, start, end, down, cal) ==
    IF c.id \in down THEN << >>
    ELSE LET evs == cal[c.id] IN
         LET hit == SelectSeqBy(evs, [i \in DOMAIN evs |-> InRange(evs[i], start, end)]) IN
         [i \in DOMAIN hit |-> fmt_event(hit[i], c.name)]

list_events(apple_id, app_password, from_date, to_date, calendar_uid, net, down, cal, rem, out) ==
    IF Truthy(from_date) /\ ~Parsable(from_date)
    THEN Eff(Exc("ParserError", MsgParserError), Null, cal, rem, out)
    ELSE IF Truthy(to_date) /\ ~Parsable(to_date)
    THEN Eff(Exc("ParserError", MsgParserError), Null, cal, rem, out)
    ELSE
    LET start == IF Truthy(from_date) THEN parse(from_date) ELSE Now
        end == IF Truthy(to_date) THEN parse(to_date) ELSE plus_days(Now, DefaultWindowDays)
        p == principal(apple_id, app_password, net)
        calendars == CalendarsMatching(calendar_uid)
    IN IF p # NoExc THEN Eff(p, Null, cal, rem, out)
       ELSE Eff(NoExc,
                ListOf(Concat([i \in DOMAIN calendars |->
                                 EventsOfCalendar(calendars[i], start, end, down, cal)])),
                cal, rem, out)

\* get_event: the first VEVENT with the uid, over the calendars in order; a
\* calendar whose search fails is skipped.
FindEvent(event_uid, down, cal) ==
    LET RECURSIVE Go(_)
        Go(i) ==
            IF i > Len(Calendars) THEN Null
            ELSE LET c == Calendars[i] IN
                 IF c.id \in down THEN Go(i + 1)
                 ELSE LET evs == cal[c.id]
                          hit == SelectSeqBy(evs, [j \in DOMAIN evs |-> evs[j].uid = event_uid])
                      IN IF hit # << >> THEN DictOf(fmt_event(hit[1], c.name)) ELSE Go(i + 1)
    IN Go(1)

get_event(apple_id, app_password, event_uid, net, down, cal, rem, out) ==
    LET p == principal(apple_id, app_password, net) IN
    IF p # NoExc THEN Eff(p, Null, cal, rem, out)
    ELSE Eff(NoExc, FindEvent(event_uid, down, cal), cal, rem, out)

\* The VEVENT create_event writes: location and description are added only
\* when they are not empty.
NewVevent(event_uid, title, start_dt, end_dt, location, description) ==
    [uid |-> event_uid, summary |-> title,
     dtstart |-> to_ical_dt(start_dt), dtend |-> to_ical_dt(end_dt),
     location |-> IF Truthy(location) THEN location ELSE None,
     description |-> IF Truthy(description) THEN description ELSE None]

\* create_event; event_uid is the uuid4 drawn at line 177 and putOk whether
\* the server accepts cal.add_event.
create_event(apple_id, app_password, title, start, end, calendar_uid, location, description, event_uid, net, putOk, cal, rem, out) ==
    IF ~Parsable(start) \/ ~Parsable(end)
    THEN Eff(Exc("ParserError", MsgParserError), Null, cal, rem, out)
    ELSE
    LET start_dt == parse(start)
        end_dt == parse(end)
        p == principal(apple_id, app_password, net)
        found == CalendarsMatching(calendar_uid)
    IN IF p # NoExc THEN Eff(p, Null, cal, rem, out)
       ELSE IF found = << >>
       THEN Eff(Exc("ValueError", "Calendar '" \o calendar_uid \o "' not found."),
                Null, cal, rem, out)
       ELSE IF ~putOk THEN Eff(Exc("PutError", "PUT failed"), Null, cal, rem, out)
       ELSE LET c == found[1] IN
            Eff(NoExc,
                DictOf([uid |-> event_uid, title |-> title,
                        start |-> isoformat(start_dt), end |-> isoformat(end_dt),
                        location |-> location, description |-> description,
                        calendar |-> c.name]),
                [cal EXCEPT ![c.id] = Append(@, NewVevent(event_uid, title, start_dt,
                                                          end_dt, location, description))],
                rem, out)

\* ------------------------------------------------------------------------
\* tools/mail.py
\* ------------------------------------------------------------------------
LimitCap == 100
DefaultLimit == 20

Min(a, b) == IF a < b THEN a ELSE b
Max(a, b) == IF a > b THEN a ELSE b

\* Python's s[start:] for any integer start.
PySliceFrom(s, start) ==
    LET first == IF start < 0 THEN Max(Len(s) + start, 0) ELSE Min(start, Len(s))
    IN SubSeq(s, first + 1, Len(s))

\* The mailboxes of the account.  A mailbox is [count, unseen]: it holds the
\* messages numbered 1..count, of which the newest `unseen` are unread.
Mailboxes == {"INBOX"}

\* _imap(): connect and log in.
imap(apple_id, app_password, net) ==
    IF ~net THEN Exc("OSError", "imap.mail.me.com unreachable")
    ELSE IF ~ValidLogin(apple_id, app_password) THEN Exc("IMAP4.error", "LOGIN failed")
    ELSE NoExc

\* conn.search(None, criteria): the sequence numbers, ascending.
SearchUids(mbox, unread_only) ==
    IF unread_only
    THEN [i \in 1..mbox.unseen |-> mbox.count - mbox.unseen + i]
    ELSE [i \in 1..mbox.count |-> i]

fmt_message(uid) ==
    [uid |-> uid, subject |-> "subject", from |-> "from", to |-> "to",
     date |-> "date", message_id |-> "message-id"]

\* list_messages; `gone` are the numbers for which fetch answers no data.
list_messages(apple_id, app_password, mailbox, limit, unread_only, net, gone, mail, cal, rem, out) ==
    LET lim == Min(limit, LimitCap)
        c == imap(apple_id, app_password, net)
    IN IF c # NoExc THEN Eff(c, Null, cal, rem, out)
       ELSE IF mailbox \notin Mailboxes
       THEN Eff(Exc("IMAP4.error", "command SEARCH illegal in state AUTH"), Null, cal, rem, out)
       ELSE LET all == SearchUids(mail, unread_only)
                uids == Reverse(PySliceFrom(all, 0 - lim))
                got == SelectSeqBy(uids, [i \in DOMAIN uids |-> uids[i] \notin gone])
            IN Eff(NoExc, ListOf([i \in DOMAIN got |-> fmt_message(got[i])]), cal, rem, out)

\* get_message: the server answers no data for a number that names no
\* message, and get_message then returns None.
get_message(apple_id, app_password, uid, mailbox, net, mail, cal, rem, out) ==
    LET c == imap(apple_id, app_password, net) IN
    IF c # NoExc THEN Eff(c, Null, cal, rem, out)
    ELSE IF mailbox \notin Mailboxes
    THEN Eff(Exc("IMAP4.error", "command FETCH illegal in state AUTH"), Null, cal, rem, out)
    ELSE IF uid \notin 1..mail.count THEN Eff(NoExc, Null, cal, rem, out)
    ELSE Eff(NoExc, DictOf([uid |-> uid, subject |-> "subject", from |-> "from",
                            to |-> "to", date |-> "date", message_id |-> "message-id",
                            body |-> "body"]), cal, rem, out)

\* list_mailboxes: one {name} per line of the LIST answer.
MailboxOrder == << "INBOX" >>
list_mailboxes(apple_id, app_password, net, cal, rem, out) ==
    LET c == imap(apple_id, app_password, net) IN
    IF c # NoExc THEN Eff(c, Null, cal, rem, out)
    ELSE Eff(NoExc, ListOf([i \in DOMAIN MailboxOrder |-> [uid |-> None, name |-> MailboxOrder[i]]]), cal, rem, out)

\* send_message.  to, cc and bcc are given as the lists their text splits
\* into at the commas ("" splits into the one piece ""); refused are the
\* recipients the SMTP server rejects.  smtp.sendmail raises
\* SMTPRecipientsRefused only when every recipient is refused; otherwise it
\* returns the refused ones, which send_message does not read.
Recipients(to, cc, bcc) ==
    to \o (IF cc # << "" >> THEN cc ELSE << >>) \o (IF bcc # << "" >> THEN bcc ELSE << >>)

send_message(apple_id, app_password, to, cc, bcc, msg_id, net, refused, cal, rem, out) ==
    LET recipients == Recipients(to, cc, bcc) IN
    IF ~net THEN Eff(Exc("OSError", "smtp.mail.me.com unreachable"), Null, cal, rem, out)
    ELSE IF ~ValidLogin(apple_id, app_password)
    THEN Eff(Exc("SMTPAuthenticationError", "Authentication failed"), Null, cal, rem, out)
    ELSE IF Range(recipients) \subseteq refused
    THEN Eff(Exc("SMTPRecipientsRefused", "all recipients refused"), Null, cal, rem, out)
    ELSE Eff(NoExc, DictOf([uid |-> msg_id, status |-> "sent", message_id |-> msg_id]),
             cal, rem, Append(out, [message_id |-> msg_id,
                                    delivered |-> Range(recipients) \ refused,
                                    refused |-> Range(recipients) \cap refused]))

\* ------------------------------------------------------------------------
\* tools/reminders.py
\* ------------------------------------------------------------------------
EK_ENTITY_TYPE_REMINDER == 1

\* store.calendarsForEntityType_: the reminder lists; the first one is
\* store.defaultCalendarForNewReminders().
ReminderLists == << [id |-> "L1", title |-> "Reminders"], [id |-> "L2", title |-> "Shopping"] >>
ReminderUids == {"r1", "r2"}

\* The reminder store maps an identifier to [state, list, title, due,
\* priority, notes]; state is "absent", "open" or "done".
AbsentReminder == [state |-> "absent", list |-> None, title |-> "", due |-> << >>, priority |-> 0, notes |-> ""]

MsgDenied == "Access to Reminders was denied. Grant access in System Settings > Privacy & Security > Reminders."

\* _get_store(); perm is what happens to the access request: the handler is
\* called with True ("granted") or False ("denied"), or is not called
\* within the 30 s wait ("timeout").
get_store(perm) ==
    IF perm = "granted" THEN NoExc ELSE Exc("PermissionError", MsgDenied)

ListTitle(id) ==
    LET hit == SelectSeqBy(ReminderLists, [i \in DOMAIN ReminderLists |-> ReminderLists[i].id = id])
    IN IF hit = << >> THEN "" ELSE hit[1].title

\* _fmt_reminder of the stored reminder uid.
fmt_reminder(uid, r) ==
    [uid |-> uid, title |-> r.title, description |-> r.notes,
     completed |-> (r.state = "done"), due |-> r.due, priority |-> r.priority,
     list |-> ListTitle(r.list)]

list_lists(perm, cal, rem, out) ==
    LET s == get_store(perm) IN
    IF s # NoExc THEN Eff(s, Null, cal, rem, out)
    ELSE Eff(NoExc,
             ListOf([i \in DOMAIN ReminderLists |->
                       [uid |-> ReminderLists[i].id, title |-> ReminderLists[i].title]]),
             cal, rem, out)

\* A fixed order of the identifiers, for the lists the store hands out.
UidOrder == << "r1", "r2" >>

\* list_reminders; fetch is "ok" when the completion callback runs within
\* the 30 s wait and "timeout" when it does not (result_holder stays empty).
list_reminders(list_uid, include_completed, perm, fetch, cal, rem, out) ==
    LET s == get_store(perm)
        lists == IF Truthy(list_uid)
                 THEN {ReminderLists[i].id : i \in {j \in DOMAIN ReminderLists : ReminderLists[j].id = list_uid}}
                 ELSE {ReminderLists[i].id : i \in DOMAIN ReminderLists}
        matching == SelectSeqBy(UidOrder, [i \in DOMAIN UidOrder |->
                        rem[UidOrder[i]].state # "absent" /\ rem[UidOrder[i]].list \in lists])
        all_reminders == IF fetch = "ok" THEN matching ELSE << >>
        results == [i \in DOMAIN all_reminders |-> fmt_reminder(all_reminders[i], rem[all_reminders[i]])]
    IN IF s # NoExc THEN Eff(s, Null, cal, rem, out)
       ELSE IF include_completed THEN Eff(NoExc, ListOf(results), cal, rem, out)
       ELSE Eff(NoExc,
                ListOf(SelectSeqBy(results, [i \in DOMAIN results |-> ~results[i].completed])),
                cal, rem, out)

\* create_reminder; uid is the identifier the store gives the new reminder
\* and saveOk the answer of store.saveReminder_commit_error_.
create_reminder(title, list_uid, due, description, priority, uid, perm, saveOk, cal, rem, out) ==
    LET s == get_store(perm)
        found == SelectSeqBy(ReminderLists, [i \in DOMAIN ReminderLists |-> ReminderLists[i].id = list_uid])
        target == IF Truthy(list_uid) THEN found ELSE << ReminderLists[1] >>
        r == [state |-> "open", list |-> target[1].id, title |-> title,
              due |-> IF Truthy(due) THEN << parse(due).t >> ELSE << >>,
              priority |-> priority,
              notes |-> IF Truthy(description) THEN description ELSE ""]
    IN IF s # NoExc THEN Eff(s, Null, cal, rem, out)
       ELSE IF target = << >>
       THEN Eff(Exc("ValueError", "Reminder list '" \o list_uid \o "' not found."), Null, cal, rem, out)
       ELSE IF Truthy(due) /\ ~Parsable(due)
       THEN Eff(Exc("ParserError", MsgParserError), Null, cal, rem, out)
       ELSE IF ~saveOk THEN Eff(Exc("RuntimeError", "Failed to save reminder."), Null, cal, rem, out)
       ELSE Eff(NoExc, DictOf(fmt_reminder(uid, r)), cal, [rem EXCEPT ![uid] = r], out)

\* complete_reminder; saveOk is the answer of store.saveReminder_commit_error_,
\* which complete_reminder does not read.
complete_reminder(uid, perm, saveOk, cal, rem, out) ==
    LET s == get_store(perm) IN
    IF s # NoExc THEN Eff(s, Null, cal, rem, out)
    ELSE IF uid \notin DOMAIN rem \/ rem[uid].state = "absent"
    THEN Eff(NoExc, BoolOf(FALSE), cal, rem, out)
    ELSE Eff(NoExc, BoolOf(TRUE), cal,
             IF saveOk THEN [rem EXCEPT ![uid].state = "done"] ELSE rem, out)

\* ------------------------------------------------------------------------
\* server.py: the call expressions of call_tool and Python's binding of
\* their arguments to the parameters of the function called
\* ------------------------------------------------------------------------
ToolNames == {"calendar_list_calendars", "calendar_list_events", "calendar_get_event",
              "calendar_create_event", "mail_list_mailboxes", "mail_list_messages",
              "mail_get_message", "mail_send_message", "reminders_list_lists",
              "reminders_list_reminders", "reminders_create_reminder",
              "reminders_complete_reminder"}
ReminderTools == {"reminders_list_lists", "reminders_list_reminders",
                  "reminders_create_reminder", "reminders_complete_reminder"}

\* The parameters of each adapter function, in order, and how many of them
\* have no default.
Signature ==
    [list_calendars |-> [params |-> << "apple_id", "app_password" >>, required |-> 2],
     list_events |-> [params |-> << "apple_id", "app_password", "from_date", "to_date", "calendar_uid" >>, required |-> 2],
     get_event |-> [params |-> << "apple_id", "app_password", "event_uid" >>, required |-> 3],
     create_event |-> [params |-> << "apple_id", "app_password", "title", "start", "end", "calendar_uid", "location", "description" >>, required |-> 5],
     list_mailboxes |-> [params |-> << "apple_id", "app_password" >>, required |-> 2],
     list_messages |-> [params |-> << "apple_id", "app_password", "mailbox", "limit", "unread_only" >>, required |-> 2],
     get_message |-> [params |-> << "apple_id", "app_password", "uid", "mailbox" >>, required |-> 3],
     send_message |-> [params |-> << "apple_id", "app_password", "to", "subject", "body", "cc", "bcc" >>, required |-> 5],
     list_lists |-> [params |-> << >>, required |-> 0],
     list_reminders |-> [params |-> << "list_uid", "include_completed" >>, required |-> 0],
     create_reminder |-> [params |-> << "title", "list_uid", "due", "description", "priority" >>, required |-> 1],
     complete_reminder |-> [params |-> << "uid" >>, required |-> 1]]

\* The call call_tool makes for each tool: the function, the positional
\* arguments ("api" is the session, any other name is arguments[name]), the
\* keyword arguments, and the keys read with arguments[...] (a KeyError when
\* the key is absent) rather than arguments.get(...).
CallSite ==
    [calendar_list_calendars |-> [fn |-> "list_calendars", pos |-> << "api" >>, kws |-> {}, subs |-> {}],
     calendar_list_events |-> [fn |-> "list_events", pos |-> << "api" >>, kws |-> {"from_date", "to_date", "calendar_uid"}, subs |-> {}],
     calendar_get_event |-> [fn |-> "get_event", pos |-> << "api", "event_uid" >>, kws |-> {}, subs |-> {"event_uid"}],
     calendar_create_event |-> [fn |-> "create_event", pos |-> << "api" >>, kws |-> {"title", "start", "end", "calendar_uid", "location", "description"}, subs |-> {"title", "start", "end"}],
     mail_list_mailboxes |-> [fn |-> "list_mailboxes", pos |-> << "api" >>, kws |-> {}, subs |-> {}],
     mail_list_messages |-> [fn |-> "list_messages", pos |-> << "api" >>, kws |-> {"mailbox", "limit", "unread_only"}, subs |-> {}],
     mail_get_message |-> [fn |-> "get_message", pos |-> << "api" >>, kws |-> {"uid", "mailbox"}, subs |-> {"uid"}],
     mail_send_message |-> [fn |-> "send_message", pos |-> << "api" >>, kws |-> {"to", "subject", "body", "cc", "bcc"}, subs |-> {"to", "subject", "body"}],
     reminders_list_lists |-> [fn |-> "list_lists", pos |-> << "api" >>, kws |-> {}, subs |-> {}],
     reminders_list_reminders |-> [fn |-> "list_reminders", pos |-> << "api" >>, kws |-> {"list_uid", "include_completed"}, subs |-> {}],
     reminders_create_reminder |-> [fn |-> "create_reminder", pos |-> << "api" >>, kws |-> {"title", "list_uid", "due", "description", "priority"}, subs |-> {"title"}],
     reminders_complete_reminder |-> [fn |-> "complete_reminder", pos |-> << "api", "uid" >>, kws |-> {}, subs |-> {"uid"}]]

IndexOf(s, x) == IF x \in Range(s) THEN CHOOSE i \in DOMAIN s : s[i] = x ELSE 0

\* The TypeError Python raises when npos positional arguments and the
\* keywords kws do not fit the parameters of fn, or NoExc when they fit.
\* CPython reports an unexpected or doubly given keyword first, then too
\* many positional arguments, then a missing required argument.
BindError(fn, npos, kws) ==
    LET sig == Signature[fn]
        n == Len(sig.params)
    IN IF \E k \in kws : k \notin Range(sig.params)
       THEN Exc("TypeError", fn \o "() got an unexpected keyword argument")
       ELSE IF \E k \in kws : IndexOf(sig.params, k) <= npos
       THEN Exc("TypeError", fn \o "() got multiple values for argument")
       ELSE IF npos > n
       THEN Exc("TypeError", fn \o "() takes fewer positional arguments than were given")
       ELSE IF \E i \in (npos + 1)..sig.required : sig.params[i] \notin kws
       THEN Exc("TypeError", fn \o "() missing required positional argument")
       ELSE NoExc

\* A tool call is [name, keys, args]: the tool name, the keys present in
\* `arguments` and their values.
Arg(call, k, default) == IF k \in call.keys THEN call.args[k] ELSE default

\* The defaults of arguments.get(...) in call_tool, which are also the
\* defaults of the adapters' parameters.
Default ==
    [from_date |-> None, to_date |-> None, calendar_uid |-> None, location |-> "",
     description |-> "", mailbox |-> "INBOX", limit |-> DefaultLimit, unread_only |-> FALSE,
     cc |-> << "" >>, bcc |-> << "" >>, list_uid |-> None, include_completed |-> FALSE,
     due |-> None, priority |-> 0,
     event_uid |-> None, title |-> None, start |-> None, end |-> None, uid |-> None,
     to |-> << "" >>, subject |-> None, body |-> None, apple_id |-> None, app_password |-> None]

\* The value each parameter of the called function is bound to.
Bound(site, call, session) ==
    [p \in Range(Signature[site.fn].params) |->
        LET i == IndexOf(Signature[site.fn].params, p) IN
        IF i <= Len(site.pos)
        THEN IF site.pos[i] = "api" THEN session ELSE Arg(call, site.pos[i], Default[site.pos[i]])
        ELSE IF p \in site.kws THEN Arg(call, p, Default[p]) ELSE Default[p]]

\* The message number a uid text denotes.
MessageNumber(text) == IF text = "1" THEN 1 ELSE IF text = "999" THEN 999 ELSE 0

\* What the backends and the operating system answer during one adapter
\* call, and the fresh identifiers drawn in it.
Envs ==
    [net : BOOLEAN, down : SUBSET CalendarIds, gone : SUBSET {1}, putOk : BOOLEAN,
     refused : SUBSET {"x@y.com"}, perm : {"granted", "denied", "timeout"},
     fetch : {"ok", "timeout"}, saveOk : BOOLEAN]
QuietEnv == [net |-> TRUE, down |-> {}, gone |-> {}, putOk |-> TRUE, refused |-> {},
             perm |-> "granted", fetch |-> "ok", saveOk |-> TRUE]

\* The adapter function fn applied to the bound parameters P.
Invoke(fn, P, env, fresh, mail, cal, rem, out) ==
    CASE fn = "list_calendars" -> list_calendars(P["apple_id"], P["app_password"], env.net, cal, rem, out)
      [] fn = "list_events" -> list_events(P["apple_id"], P["app_password"], P["from_date"], P["to_date"], P["calendar_uid"], env.net, env.down, cal, rem, out)
      [] fn = "get_event" -> get_event(P["apple_id"], P["app_password"], P["event_uid"], env.net, env.down, cal, rem, out)
      [] fn = "create_event" -> create_event(P["apple_id"], P["app_password"], P["title"], P["start"], P["end"], P["calendar_uid"], P["location"], P["description"], fresh, env.net, env.putOk, cal, rem, out)
      [] fn = "list_mailboxes" -> list_mailboxes(P["apple_id"], P["app_password"], env.net, cal, rem, out)
      [] fn = "list_messages" -> list_messages(P["apple_id"], P["app_password"], P["mailbox"], P["limit"], P["unread_only"], env.net, env.gone, mail, cal, rem, out)
      [] fn = "get_message" -> get_message(P["apple_id"], P["app_password"], MessageNumber(P["uid"]), P["mailbox"], env.net, mail, cal, rem, out)
      [] fn = "send_message" -> send_message(P["apple_id"], P["app_password"], P["to"], P["cc"], P["bcc"], fresh, env.net, env.refused, cal, rem, out)
      [] fn = "list_lists" -> list_lists(env.perm, cal, rem, out)
      [] fn = "list_reminders" -> list_reminders(P["list_uid"], P["include_completed"], env.perm, env.fetch, cal, rem, out)
      [] fn = "create_reminder" -> create_reminder(P["title"], P["list_uid"], P["due"], P["description"], P["priority"], fresh, env.perm, env.saveOk, cal, rem, out)
      [] fn = "complete_reminder" -> complete_reminder(P["uid"], env.perm, env.saveOk, cal, rem, out)

\* The object call_tool serialises: a dict with the key "error", or the
\* value of the adapter.  `error` is None when the key is absent and
\* `payload` is Absent when the result is the error dict.
Absent == [kind |-> "absent", items |-> << >>, item |-> NoItem, flag |-> FALSE]
ErrorEnvelope(msg) == [error |-> msg, payload |-> Absent]
Success(value) == [error |-> None, payload |-> value]

\* The body of the try statement of call_tool (lines 274-365) for one call
\* with the session `session`: the envelope and the stores it leaves.
Dispatch(call, session, env, fresh, mail, cal, rem, out) ==
    IF call.name \notin ToolNames
    THEN [envelope |-> ErrorEnvelope("Unknown tool: " \o call.name), cal |-> cal, rem |-> rem, out |-> out]
    ELSE
    LET site == CallSite[call.name]
        bind == BindError(site.fn, Len(site.pos), site.kws)
    IN IF ~(site.subs \subseteq call.keys)
       THEN [envelope |-> ErrorEnvelope("KeyError"), cal |-> cal, rem |-> rem, out |-> out]
       ELSE IF bind # NoExc
       THEN [envelope |-> ErrorEnvelope(bind.msg), cal |-> cal, rem |-> rem, out |-> out]
       ELSE LET e == Invoke(site.fn, Bound(site, call, session), env, fresh, mail, cal, rem, out) IN
            [envelope |->
                IF e.exc # NoExc THEN ErrorEnvelope(e.exc.msg)
                ELSE IF call.name = "calendar_get_event" /\ e.value.kind = "null"
                THEN ErrorEnvelope("Event '" \o call.args.event_uid \o "' not found.")
                ELSE IF call.name = "mail_get_message" /\ e.value.kind = "null"
                THEN ErrorEnvelope("Message '" \o call.args.uid \o "' not found.")
                ELSE IF call.name = "reminders_complete_reminder"
                THEN Success(DictOf([uid |-> None, completed |-> e.value.flag]))
                ELSE Success(e.value),
             cal |-> e.cal, rem |-> e.rem, out |-> e.out]

\* ------------------------------------------------------------------------
\* State
\* ------------------------------------------------------------------------
VARIABLES
    keyring,   \* the Keychain entries of service SERVICE
    api,       \* server.py's global _api: NoApi (None) or the memoized session
    local,     \* _get_api's local `api` while it waits in input()
    pending,   \* tool calls received and not yet completed, oldest first
    pc,        \* "idle", or "awaiting_code": the head call is blocked in input()
    result,    \* how the last completed call_tool ended
    group,     \* the calls in flight together: how many, whether each came
               \* when no session was memoized, and the logins made for them
    arrived,   \* number of tool calls received so far
    cal,       \* the CalDAV server: calendar id -> the VEVENTs stored in it
    mail,      \* the INBOX on the IMAP server: [count, unseen]
    rem,       \* the reminder store: identifier -> reminder
    out,       \* the messages the SMTP server accepted
    ret,       \* what the last adapter function called directly did
    made       \* the dicts create_event has returned, oldest first

vars == << keyring, api, local, pending, pc, result, group, arrived, cal, mail, rem, out, ret, made >>
gateway == << keyring, api, local, pending, pc, result, group, arrived >>
stores == << cal, mail, rem, out >>

NoApi == [apple_id |-> None, trusted |-> FALSE, challenged |-> FALSE]
Session(apple_id, trusted, challenged) ==
    [apple_id |-> apple_id, trusted |-> trusted, challenged |-> challenged]

NoCall == [name |-> None, keys |-> {}, args |-> Default]
NoEnvelope == [error |-> None, payload |-> Absent]
NoResult ==
    [call |-> NoCall, outcome |-> "none", envelope |-> NoEnvelope, exc |-> NoExc,
     hadSession |-> FALSE, configured |-> FALSE, lookups |-> 0, attempts |-> 0,
     prompts |-> 0, login |-> "none", after |-> [outcome |-> "none", exc |-> NoExc]]
NoRet == [fn |-> None, args |-> << >>, env |-> QuietEnv, exc |-> NoExc, value |-> Null, seen |-> [made |-> 0, uids |-> {}, rem |-> << >>]]

\* PyiCloudService(apple_id, app_password): the login succeeds ("ok"),
\* succeeds and asks for a second factor ("2fa"), is rejected
\* (PyiCloudFailedLoginException) or fails otherwise ("error").
LoginOutcomes == {"ok", "2fa", "rejected", "error"}

\* The tool calls a client sends.  Each carries the keys its tool reads with
\* arguments[...]; calendar_get_event also comes without its key, and one
\* call names no declared tool.
UidFor(name) ==
    IF name = "mail_get_message" THEN "999" ELSE "r9"
CallOf(name, keys) ==
    [name |-> name, keys |-> keys,
     args |-> [Default EXCEPT !.event_uid = "e9", !.uid = UidFor(name), !.title = "t",
                              !.start = "2025-03-01T10:00:00", !.end = "2025-03-02T10:00:00Z",
                              !.to = << "x@y.com" >>, !.subject = "hi", !.body = "test"]]
ToolCalls ==
    {CallOf(n, CallSite[n].subs) : n \in ToolNames}
        \cup {CallOf("calendar_get_event", {}), CallOf("bogus_tool", {})}

InitialCal == [c \in CalendarIds |->
                 IF c = "work"
                 THEN << [uid |-> "e0", summary |-> "standup", dtstart |-> << 2, "UTC" >>,
                          dtend |-> << 3, "UTC" >>, location |-> None, description |-> None] >>
                 ELSE << >>]
InitialRem == [u \in ReminderUids |->
                 IF u = "r1"
                 THEN [state |-> "open", list |-> "L1", title |-> "milk", due |-> << >>,
                       priority |-> 0, notes |-> ""]
                 ELSE AbsentReminder]

Init ==
    /\ keyring \in KeyringStates
    /\ api = NoApi
    /\ local = NoApi
    /\ pending = << >>
    /\ pc = "idle"
    /\ result = NoResult
    /\ group = [size |-> 0, noSession |-> TRUE, attempts |-> 0]
    /\ arrived = 0
    /\ cal = InitialCal
    /\ mail = [count |-> 0, unseen |-> 0]
    /\ rem = InitialRem
    /\ out = << >>
    /\ ret = NoRet
    /\ made = << >>

\* ------------------------------------------------------------------------
\* server.py: _get_api
\* ------------------------------------------------------------------------
\* _get_api with a failure kept: after a call that raised, the same
\* exception is raised again without reading the Keychain.
get_api_failure_kept(memo, kr, login) ==
    LET creds == get_credentials(kr)
        base == [at |-> "return", exc |-> NoExc, session |-> memo, lookups |-> 1,
                 attempts |-> 0, prompts |-> 0, login |-> "none"]
    IN IF result.outcome = "raised"
       THEN [base EXCEPT !.at = "raise", !.exc = result.exc, !.lookups = 0]
       ELSE IF creds.exc # NoExc THEN [base EXCEPT !.at = "raise", !.exc = creds.exc]
       ELSE IF login = "rejected"
       THEN [base EXCEPT !.at = "raise", !.exc = Exc("RuntimeError", MsgLoginFailed),
                         !.attempts = 1, !.login = login]
       ELSE IF login = "error"
       THEN [base EXCEPT !.at = "raise", !.exc = Exc("PyiCloudAPIResponseException", "Service Unavailable"),
                         !.attempts = 1, !.login = login]
       ELSE IF login = "2fa"
       THEN [base EXCEPT !.at = "input", !.session = Session(creds.apple_id, FALSE, TRUE),
                         !.attempts = 1, !.prompts = 1, !.login = login]
       ELSE [base EXCEPT !.session = Session(creds.apple_id, FALSE, FALSE),
                         !.attempts = 1, !.login = login]

\* _get_api() up to its return, its raise, or its call of input() (lines
\* 34-54).  `memo` is the global _api on entry, kr the Keychain and login
\* what PyiCloudService(...) does.  The record tells where _get_api stands
\* ("return", "raise", "input"), the session or the exception, and how often
\* it read the Keychain, logged in and prompted.
get_api_unmemoized(memo, kr, login) ==
    LET creds == get_credentials(kr)
        base == [at |-> "return", exc |-> NoExc, session |-> memo, lookups |-> 1,
                 attempts |-> 0, prompts |-> 0, login |-> "none"]
    IN IF creds.exc # NoExc THEN [base EXCEPT !.at = "raise", !.exc = creds.exc]
       ELSE IF login = "rejected"
       THEN [base EXCEPT !.at = "raise", !.exc = Exc("RuntimeError", MsgLoginFailed),
                         !.attempts = 1, !.login = login]
       ELSE IF login = "error"
       THEN [base EXCEPT !.at = "raise", !.exc = Exc("PyiCloudAPIResponseException", "Service Unavailable"),
                         !.attempts = 1, !.login = login]
       ELSE IF login = "2fa"
       THEN [base EXCEPT !.at = "input", !.session = Session(creds.apple_id, FALSE, TRUE),
                         !.attempts = 1, !.prompts = 1, !.login = login]
       ELSE [base EXCEPT !.session = Session(creds.apple_id, FALSE, FALSE),
                         !.attempts = 1, !.login = login]

\* _get_api without the test of line 36.
get_api_relogin(memo, kr, login) == get_api_unmemoized(memo, kr, login)

get_api(memo, kr, login) ==
    IF memo # NoApi
    THEN [at |-> "return", exc |-> NoExc, session |-> memo, lookups |-> 0,
          attempts |-> 0, prompts |-> 0, login |-> "memo"]
    ELSE get_api_unmemoized(memo, kr, login)

\* _get_api keeping the session whatever validate_2fa_code answers.
get_api_resume_unchecked(session, code, trusted) ==
    IF code = "eof" THEN [at |-> "raise", exc |-> Exc("EOFError", "EOF when reading a line"), session |-> NoApi]
    ELSE [at |-> "return", exc |-> NoExc,
          session |-> [session EXCEPT !.trusted = (code = "valid")]]

\* _get_api() from the return of input() on (lines 54-61).  code is what
\* the operator typed ("valid" or "invalid" for Apple) or "eof" when stdin
\* is closed; trusted is api.is_trusted_session.
get_api_resume(session, code, trusted) ==
    IF code = "eof" THEN [at |-> "raise", exc |-> Exc("EOFError", "EOF when reading a line"), session |-> NoApi]
    ELSE IF code = "invalid" THEN [at |-> "raise", exc |-> Exc("RuntimeError", Msg2faRejected), session |-> NoApi]
    ELSE [at |-> "return", exc |-> NoExc, session |-> [session EXCEPT !.trusted = TRUE]]

\* Whether lines 57-58 call api.trust_session().
TrustSessionCalled(code, trusted) == code = "valid" /\ ~trusted

Configured(kr) == Truthy(kr[KEY_APPLE_ID]) /\ Truthy(kr[KEY_APP_PASSWORD])

\* ------------------------------------------------------------------------
\* server.py: call_tool
\* ------------------------------------------------------------------------
\* Whether the call reaches an adapter function, so that the answers of the
\* backends matter.
ReachesAdapter(call) ==
    /\ call.name \in ToolNames
    /\ CallSite[call.name].subs \subseteq call.keys
    /\ BindError(CallSite[call.name].fn, Len(CallSite[call.name].pos), CallSite[call.name].kws) = NoExc

\* The end of one call_tool invocation.  g is where _get_api ended: when it
\* raised, the exception leaves call_tool (line 272 is outside the try
\* statement); otherwise the session is memoized and the try statement runs.
Complete(call, g, hadSession, configured, lookups, attempts, prompts, login, env) ==
    LET d == Dispatch(call, g.session, env, "fresh", mail, cal, rem, out) IN
    /\ pending' = Tail(pending)
    /\ pc' = "idle"
    /\ local' = NoApi
    /\ api' = IF g.at = "return" THEN g.session ELSE api
    /\ result' = [call |-> call,
                  outcome |-> IF g.at = "return" THEN "returned" ELSE "raised",
                  envelope |-> IF g.at = "return" THEN d.envelope ELSE NoEnvelope,
                  exc |-> g.exc,
                  hadSession |-> hadSession, configured |-> configured,
                  lookups |-> lookups, attempts |-> attempts, prompts |-> prompts,
                  login |-> login,
                  after |-> [outcome |-> result.outcome, exc |-> result.exc]]
    /\ cal' = IF g.at = "return" THEN d.cal ELSE cal
    /\ rem' = IF g.at = "return" THEN d.rem ELSE rem
    /\ out' = IF g.at = "return" THEN d.out ELSE out
    /\ UNCHANGED << mail, ret, made, keyring, arrived >>

\* A tool call reaches the server and joins the calls in flight.  The
\* calls in flight together form a group, which starts with a call that
\* finds no other call in flight.
Enqueue(call) ==
    /\ arrived < MaxCalls
    /\ pending' = Append(pending, call)
    /\ arrived' = arrived + 1
    /\ group' = IF pending = << >>
                THEN [size |-> 1, noSession |-> (api = NoApi), attempts |-> 0]
                ELSE [size |-> group.size + 1,
                      noSession |-> (group.noSession /\ api = NoApi),
                      attempts |-> group.attempts]
    /\ UNCHANGED << keyring, api, local, pc, result, stores, ret, made >>

\* A client that sends its next call after the answer to the last one.
Receive ==
    /\ pending = << >>
    /\ \E call \in ToolCalls : Enqueue(call)

\* A client that sends calls without waiting for the answers: the server's
\* message loop starts a handler for each.
ConcurrentCalls == {CallOf(n, CallSite[n].subs) :
                      n \in {"calendar_list_events", "mail_list_messages", "reminders_list_lists"}}
Arrive ==
    /\ Len(pending) < MaxPending
    /\ \E call \in ConcurrentCalls : Enqueue(call)

\* call_tool for the oldest pending call, from its start to its end or to
\* the input() of _get_api.  The handler has no await: it runs without
\* another handler in between.
call_tool ==
    /\ pc = "idle"
    /\ pending # << >>
    /\ LET call == Head(pending) IN
       \E login \in LoginOutcomes :
       \E env \in (IF ReachesAdapter(call) THEN Envs ELSE {QuietEnv}) :
          LET g == get_api(api, keyring, login) IN
          /\ group' = [group EXCEPT !.attempts = @ + g.attempts]
          /\ IF g.at = "input"
             THEN /\ pc' = "awaiting_code"
                  /\ local' = g.session
                  /\ UNCHANGED << keyring, api, pending, result, arrived, stores, ret, made >>
             ELSE Complete(call, g, api # NoApi, Configured(keyring), g.lookups,
                           g.attempts, g.prompts, g.login, env)

\* The operator answers the prompt (or stdin ends) and call_tool runs on to
\* its end.
SubmitCode ==
    /\ pc = "awaiting_code"
    /\ LET call == Head(pending) IN
       \E code \in {"valid", "invalid", "eof"}, trusted \in BOOLEAN :
       \E env \in (IF ReachesAdapter(call) THEN Envs ELSE {QuietEnv}) :
          /\ Complete(call, get_api_resume(local, code, trusted), FALSE, TRUE, 1, 1, 1, "2fa", env)
          /\ UNCHANGED group

\* auth.py store: both entries are written, and only when neither input is
\* empty.
store_credentials ==
    /\ \E apple_id \in {"", AccountId}, app_password \in {"", AccountPassword} :
        keyring' = IF apple_id = "" \/ app_password = "" THEN keyring
                   ELSE [apple_id |-> apple_id, app_specific_password |-> app_password]
    /\ UNCHANGED << api, local, pending, pc, result, group, arrived, stores, ret, made >>

\* auth.py clear: the entries are deleted in turn.  delete_password raises
\* for an entry that is not stored: without an apple id nothing is deleted,
\* and with one the apple id is gone before the password is tried.
clear_credentials ==
    /\ keyring[KEY_APPLE_ID] # None
    /\ keyring' = [apple_id |-> None, app_specific_password |-> None]
    /\ UNCHANGED << api, local, pending, pc, result, group, arrived, stores, ret, made >>

Next ==
    \/ Receive
    \/ call_tool
    \/ SubmitCode
    \/ store_credentials
    \/ clear_credentials

Spec == Init /\ [][Next]_vars

NextConcurrent ==
    \/ Arrive
    \/ call_tool
    \/ SubmitCode

SpecConcurrent == Init /\ [][NextConcurrent]_vars

\* The server with its scheduling: the event loop runs the handler of a
\* pending call.  Nothing makes the operator type a code, and _get_api sets
\* no timer on input() (line 54), so only call_tool is fair.
SpecScheduled == Init /\ [][NextConcurrent]_vars /\ WF_vars(call_tool)

\* ------------------------------------------------------------------------
\* The adapters called on their own, with the account's credentials or with
\* a wrong password.  Each action is one call of the adapter function.
\* ------------------------------------------------------------------------
MaxEvents == 2
MaxSent == 2
MaxMailbox == 102

\* How a call reaches its backend: the credentials it passes and whether the
\* server can be reached.
Accesses == {[apple_id |-> AccountId, app_password |-> AccountPassword, net |-> TRUE],
             [apple_id |-> AccountId, app_password |-> AccountPassword, net |-> FALSE],
             [apple_id |-> AccountId, app_password |-> "wrong", net |-> TRUE]}

\* uuid.uuid4() of the n-th create_event: a text never drawn before.
UuidTexts == << "u1", "u2", "u3", "u4", "u5", "u6" >>

StoredEvents == Concat([i \in DOMAIN Calendars |-> cal[Calendars[i].id]])
StoredUids == {StoredEvents[i].uid : i \in DOMAIN StoredEvents}

\* The record of one direct call: the function, its arguments, the answers
\* of the backend, what it raised or returned, and what the stores held when
\* it was made (how many events had been created, which uids were stored,
\* the reminders).
Returned(fn, args, env, e) ==
    [fn |-> fn, args |-> args, env |-> env, exc |-> e.exc, value |-> e.value,
     seen |-> [made |-> Len(made), uids |-> StoredUids, rem |-> rem]]

\* The inputs of the calls: a plain call, and the calls that differ from it
\* in one argument or in one answer of the backend.
OkAccess == [apple_id |-> AccountId, app_password |-> AccountPassword, net |-> TRUE]
Vary(base, field, values) == {[base EXCEPT ![field] = v] : v \in values}

ListEventsBase ==
    [access |-> OkAccess, from_date |-> None, to_date |-> None, calendar_uid |-> None, down |-> {}]
ListEventsInputs ==
    Vary(ListEventsBase, "access", Accesses)
        \cup Vary(ListEventsBase, "from_date", {"2025-03-01T10:00:00", "next-ish"})
        \cup Vary(ListEventsBase, "to_date", {"2025-03-20", "next-ish"})
        \cup Vary(ListEventsBase, "calendar_uid", {"work", "nope"})
        \cup Vary(ListEventsBase, "down", {{"home"}, {"work"}})
        \cup Vary([ListEventsBase EXCEPT !.calendar_uid = "work"], "down", {{"work"}})

GetEventBase == [access |-> OkAccess, event_uid |-> UuidTexts[1], down |-> {}]
GetEventInputs ==
    Vary(GetEventBase, "access", Accesses)
        \cup Vary(GetEventBase, "event_uid", {"e0", "e9", UuidTexts[2]})
        \cup Vary(GetEventBase, "down", {{"home"}, {"work"}})

CreateEventBase ==
    [access |-> OkAccess, title |-> "t", start |-> "2025-03-01T10:00:00", end |-> "2025-03-20",
     calendar_uid |-> None, location |-> "", description |-> "", putOk |-> TRUE]
CreateEventInputs ==
    Vary(CreateEventBase, "access", Accesses)
        \cup Vary(CreateEventBase, "start", DateTexts)
        \cup Vary(CreateEventBase, "end", {"next-ish"})
        \cup Vary(CreateEventBase, "calendar_uid", {"work", "nope"})
        \cup Vary(CreateEventBase, "location", {"office"})
        \cup Vary(CreateEventBase, "putOk", {FALSE})

ListCalendars ==
    /\ \E a \in Accesses :
        LET e == list_calendars(a.apple_id, a.app_password, a.net, cal, rem, out) IN
        ret' = Returned("list_calendars", [access |-> a], QuietEnv, e)
    /\ UNCHANGED << gateway, stores, made >>

ListEvents ==
    /\ \E in \in ListEventsInputs :
        LET e == list_events(in.access.apple_id, in.access.app_password, in.from_date,
                             in.to_date, in.calendar_uid, in.access.net, in.down,
                             cal, rem, out)
        IN ret' = Returned("list_events", in, [QuietEnv EXCEPT !.down = in.down], e)
    /\ UNCHANGED << gateway, stores, made >>

GetEvent ==
    /\ \E in \in GetEventInputs :
        LET e == get_event(in.access.apple_id, in.access.app_password, in.event_uid,
                           in.access.net, in.down, cal, rem, out)
        IN ret' = Returned("get_event", in, [QuietEnv EXCEPT !.down = in.down], e)
    /\ UNCHANGED << gateway, stores, made >>

CreateEvent ==
    /\ Len(made) < MaxEvents
    /\ \E in \in CreateEventInputs :
        LET event_uid == UuidTexts[Len(made) + 1]
            e == create_event(in.access.apple_id, in.access.app_password, in.title,
                              in.start, in.end, in.calendar_uid, in.location,
                              in.description, event_uid, in.access.net, in.putOk,
                              cal, rem, out)
        IN /\ ret' = Returned("create_event", in, [QuietEnv EXCEPT !.putOk = in.putOk], e)
           /\ cal' = e.cal
           /\ made' = IF e.exc = NoExc THEN Append(made, e.value.item) ELSE made
    /\ UNCHANGED << gateway, mail, rem, out >>

\* The owner deletes an event in another client.
DeleteEvent ==
    /\ \E c \in CalendarIds :
        /\ cal[c] # << >>
        /\ cal' = [cal EXCEPT ![c] = Tail(@)]
    /\ UNCHANGED << gateway, mail, rem, out, ret, made >>

NextCalendar ==
    \/ ListCalendars
    \/ ListEvents
    \/ GetEvent
    \/ CreateEvent
    \/ DeleteEvent

InitAdapters ==
    /\ Init
    /\ keyring = [apple_id |-> AccountId, app_specific_password |-> AccountPassword]

SpecCalendar == InitAdapters /\ [][NextCalendar]_vars

\* The mail adapter.  list_messages and get_message only read the mailbox,
\* so the mailbox is drawn at the start: a few messages, or about LimitCap.
MailboxStates ==
    {[count |-> c, unseen |-> u] :
        c \in (0..3) \cup ((LimitCap - 1)..MaxMailbox), u \in {0, 2, LimitCap + 1}}
InitMail ==
    /\ mail \in {m \in MailboxStates : m.unseen <= m.count}
    /\ keyring = [apple_id |-> AccountId, app_specific_password |-> AccountPassword]
    /\ api = NoApi
    /\ local = NoApi
    /\ pending = << >>
    /\ pc = "idle"
    /\ result = NoResult
    /\ group = [size |-> 0, noSession |-> TRUE, attempts |-> 0]
    /\ arrived = 0
    /\ cal = InitialCal
    /\ rem = InitialRem
    /\ out = << >>
    /\ ret = NoRet
    /\ made = << >>

ListMessagesBase ==
    [access |-> OkAccess, mailbox |-> "INBOX", limit |-> DefaultLimit, unread_only |-> FALSE, gone |-> {}]
ListMessagesInputs ==
    Vary(ListMessagesBase, "access", Accesses)
        \cup Vary(ListMessagesBase, "mailbox", {"Nope"})
        \cup Vary(ListMessagesBase, "limit", {0 - 5, 0, 1, LimitCap, LimitCap + 1, 250})
        \cup Vary(ListMessagesBase, "unread_only", {TRUE})
        \cup Vary(ListMessagesBase, "gone", {{1}})
        \cup Vary([ListMessagesBase EXCEPT !.unread_only = TRUE], "limit", {0, 250})

GetMessageBase == [access |-> OkAccess, uid |-> 1, mailbox |-> "INBOX"]
GetMessageInputs ==
    Vary(GetMessageBase, "access", Accesses)
        \cup Vary(GetMessageBase, "uid", {2, 999})
        \cup Vary(GetMessageBase, "mailbox", {"Nope"})

SendMessageBase ==
    [access |-> OkAccess, to |-> << "x@y.com" >>, cc |-> << "" >>, bcc |-> << "" >>, refused |-> {}]
SendMessageInputs ==
    Vary(SendMessageBase, "access", Accesses)
        \cup Vary(SendMessageBase, "to", {<< "x@y.com", "z@y.com" >>})
        \cup Vary(SendMessageBase, "cc", {<< "z@y.com" >>})
        \cup Vary(SendMessageBase, "refused", {{"x@y.com"}})
        \cup Vary([SendMessageBase EXCEPT !.to = << "x@y.com", "z@y.com" >>], "refused",
                  {{"x@y.com"}, {"x@y.com", "z@y.com"}})

\* make_msgid() of the n-th message sent.
MsgIds == << "<m1@host>", "<m2@host>", "<m3@host>", "<m4@host>" >>

ListMailboxes ==
    /\ \E a \in Accesses :
        LET e == list_mailboxes(a.apple_id, a.app_password, a.net, cal, rem, out) IN
        ret' = Returned("list_mailboxes", [access |-> a], QuietEnv, e)
    /\ UNCHANGED << gateway, stores, made >>

ListMessages ==
    /\ \E in \in ListMessagesInputs :
        LET e == list_messages(in.access.apple_id, in.access.app_password, in.mailbox,
                               in.limit, in.unread_only, in.access.net, in.gone,
                               mail, cal, rem, out)
        IN ret' = Returned("list_messages", in, [QuietEnv EXCEPT !.gone = in.gone], e)
    /\ UNCHANGED << gateway, stores, made >>

GetMessage ==
    /\ \E in \in GetMessageInputs :
        LET e == get_message(in.access.apple_id, in.access.app_password, in.uid,
                             in.mailbox, in.access.net, mail, cal, rem, out)
        IN ret' = Returned("get_message", in, QuietEnv, e)
    /\ UNCHANGED << gateway, stores, made >>

SendMessage ==
    /\ Len(out) < MaxSent
    /\ \E in \in SendMessageInputs :
        LET e == send_message(in.access.apple_id, in.access.app_password, in.to, in.cc,
                              in.bcc, MsgIds[Len(out) + 1], in.access.net, in.refused,
                              cal, rem, out)
        IN /\ ret' = Returned("send_message", in, [QuietEnv EXCEPT !.refused = in.refused], e)
           /\ out' = e.out
    /\ UNCHANGED << gateway, cal, mail, rem, made >>

NextMail ==
    \/ ListMailboxes
    \/ ListMessages
    \/ GetMessage
    \/ SendMessage

SpecMail == InitMail /\ [][NextMail]_vars

\* The reminders adapter.
Perms == {"granted", "denied", "timeout"}

ListRemindersBase == [list_uid |-> None, include_completed |-> FALSE, perm |-> "granted", fetch |-> "ok"]
ListRemindersInputs ==
    Vary(ListRemindersBase, "perm", Perms)
        \cup Vary(ListRemindersBase, "list_uid", {"L1", "L2", "nope"})
        \cup Vary(ListRemindersBase, "include_completed", {TRUE})
        \cup Vary(ListRemindersBase, "fetch", {"timeout"})

CreateReminderBase ==
    [title |-> "t", list_uid |-> None, due |-> None, description |-> "", priority |-> 0,
     perm |-> "granted", saveOk |-> TRUE]
CreateReminderInputs ==
    Vary(CreateReminderBase, "perm", Perms)
        \cup Vary(CreateReminderBase, "list_uid", {"L2", "nope"})
        \cup Vary(CreateReminderBase, "due", {"2025-03-20", "next-ish"})
        \cup Vary(CreateReminderBase, "description", {"notes"})
        \cup Vary(CreateReminderBase, "priority", {1})
        \cup Vary(CreateReminderBase, "saveOk", {FALSE})

CompleteReminderBase == [uid |-> "r1", perm |-> "granted", saveOk |-> TRUE]
CompleteReminderInputs ==
    Vary(CompleteReminderBase, "perm", Perms)
        \cup Vary(CompleteReminderBase, "uid", {"r2", "r9"})
        \cup Vary(CompleteReminderBase, "saveOk", {FALSE})

ListLists ==
    /\ \E perm \in Perms :
        LET e == list_lists(perm, cal, rem, out) IN
        ret' = Returned("list_lists", [perm |-> perm], [QuietEnv EXCEPT !.perm = perm], e)
    /\ UNCHANGED << gateway, stores, made >>

ListReminders ==
    /\ \E in \in ListRemindersInputs :
        LET e == list_reminders(in.list_uid, in.include_completed, in.perm, in.fetch, cal, rem, out)
        IN ret' = Returned("list_reminders", in,
                           [QuietEnv EXCEPT !.perm = in.perm, !.fetch = in.fetch], e)
    /\ UNCHANGED << gateway, stores, made >>

CreateReminder ==
    /\ \E uid \in ReminderUids :
        /\ rem[uid].state = "absent"
        /\ \A other \in ReminderUids : rem[other].state = "absent" => IndexOf(UidOrder, uid) <= IndexOf(UidOrder, other)
        /\ \E in \in CreateReminderInputs :
            LET e == create_reminder(in.title, in.list_uid, in.due, in.description,
                                     in.priority, uid, in.perm, in.saveOk, cal, rem, out)
            IN /\ ret' = Returned("create_reminder", in,
                                  [QuietEnv EXCEPT !.perm = in.perm, !.saveOk = in.saveOk], e)
               /\ rem' = e.rem
    /\ UNCHANGED << gateway, cal, mail, out, made >>

CompleteReminder ==
    /\ \E in \in CompleteReminderInputs :
        LET e == complete_reminder(in.uid, in.perm, in.saveOk, cal, rem, out)
        IN /\ ret' = Returned("complete_reminder", in,
                              [QuietEnv EXCEPT !.perm = in.perm, !.saveOk = in.saveOk], e)
           /\ rem' = e.rem
    /\ UNCHANGED << gateway, cal, mail, out, made >>

NextReminders ==
    \/ ListLists
    \/ ListReminders
    \/ CreateReminder
    \/ CompleteReminder

SpecReminders == InitAdapters /\ [][NextReminders]_vars

\* ------------------------------------------------------------------------
\* Properties
\* ------------------------------------------------------------------------
Completed == result.outcome # "none"
HasError(envelope) == envelope.error # None
HasPayload(envelope) == envelope.payload.kind # "absent"

\* C1: every call_tool invocation ends by returning one result, which is
\* either a success payload or an object with the key `error`, never both
\* and never neither.
C1_ExactlyOneEnvelope ==
    Completed =>
        /\ result.outcome = "returned"
        /\ HasError(result.envelope) # HasPayload(result.envelope)

\* C2: a failure raised while _get_api establishes the session (credentials
\* absent, login rejected, 2FA code rejected) is returned by call_tool as
\* {error: message}; it does not leave call_tool as an exception.
C2_SessionFailureReturned ==
    (Completed /\ result.exc # NoExc) =>
        /\ result.outcome = "returned"
        /\ result.envelope.error = result.exc.msg

\* C3: a reminders_* tool call does not read the Keychain, does not log in
\* and does not prompt, so that it ends the same way with or without stored
\* credentials.
C3_RemindersNeedNoSession ==
    (Completed /\ result.call.name \in ReminderTools) =>
        /\ result.lookups = 0
        /\ result.attempts = 0
        /\ result.prompts = 0
        /\ result.outcome = "returned"

\* C4: with stored credentials that the login accepts without a second
\* factor, calendar_list_events without arguments returns an array and no
\* `error` key.
C4_ListEventsReturnsArray ==
    (Completed /\ result.call = CallOf("calendar_list_events", {}) /\ result.login = "ok") =>
        /\ result.outcome = "returned"
        /\ ~HasError(result.envelope)
        /\ result.envelope.payload.kind = "list"

\* C5: list_messages returns at most 100 messages, whatever the limit (0,
\* negative, above 100) and however many messages the mailbox holds.
C5_AtMostLimitCap ==
    (ret.fn = "list_messages" /\ ret.exc = NoExc) => Len(ret.value.items) <= LimitCap

\* C6: calendar_get_event with an event_uid that matches no event, and
\* mail_get_message with a uid the server has no record for, return a null
\* result and not an envelope with the key `error`.
C6_NotFoundIsNull ==
    (/\ result.outcome = "returned"
     /\ result.call \in {CallOf("calendar_get_event", {"event_uid"}), CallOf("mail_get_message", {"uid"})}) =>
        /\ ~HasError(result.envelope)
        /\ result.envelope.payload.kind = "null"

\* C7: when reminders_complete_reminder with a uid that is in no reminder
\* list returns, what it returns is {completed: false} and not an error
\* envelope.
C7_CompleteUnknownIsFalse ==
    (result.outcome = "returned" /\ result.call = CallOf("reminders_complete_reminder", {"uid"})) =>
        /\ ~HasError(result.envelope)
        /\ result.envelope.payload.kind = "dict"
        /\ result.envelope.payload.item = [uid |-> None, completed |-> FALSE]

\* C8: when two tool calls are in flight together and both came while no
\* session was memoized, the backend receives no more than one login for
\* them: the second call uses the outcome of the first.
C8_OneLoginPerGroup ==
    (group.size = 2 /\ group.noSession) => group.attempts <= 1

\* C9: when the apple id or the password is missing from the Keychain, a
\* tool call that has to establish the session fails with the
\* not-configured error, whose message is not the message of a rejected
\* login, and makes no login with the incomplete credentials.
C9_NotConfigured ==
    (Completed /\ ~result.hadSession /\ ~result.configured) =>
        /\ result.outcome = "raised"
        /\ result.exc = Exc("RuntimeError", MsgNotConfigured)
        /\ result.exc.msg # MsgLoginFailed
        /\ result.attempts = 0
        /\ result.prompts = 0
        /\ api = NoApi

\* A calendar tool has just failed that way with the password missing and
\* the apple id stored.
C9_Witness ==
    /\ result.call.name = "calendar_list_events"
    /\ result.outcome = "raised"
    /\ result.exc.msg = MsgNotConfigured
    /\ keyring[KEY_APPLE_ID] = AccountId
    /\ keyring[KEY_APP_PASSWORD] = None
    /\ result.lookups = 1

\* C10: after create_event has returned an event, get_event on the returned
\* uid (the event still stored, the server reachable and every calendar
\* searchable) returns an event with the title, start and end that
\* create_event returned.
C10_RoundTrip ==
    \A i \in DOMAIN made :
        (/\ ret.fn = "get_event"
         /\ ret.exc = NoExc
         /\ ret.env.down = {}
         /\ i <= ret.seen.made
         /\ made[i].uid = ret.args.event_uid
         /\ made[i].uid \in ret.seen.uids) =>
            /\ ret.value.kind = "dict"
            /\ ret.value.item.title = made[i].title
            /\ ret.value.item.start = made[i].start
            /\ ret.value.item.end = made[i].end

\* A call_tool invocation ends in this step.
Completes == Len(pending') < Len(pending)

\* C11: once a session is memoized it stays: no later step clears or
\* replaces it, and a tool call that ends while it is memoized (its adapter
\* failing or not) has read the Keychain, logged in and prompted zero times.
C11_SessionStays ==
    [][api # NoApi =>
        /\ api' = api
        /\ group'.attempts <= group.attempts
        /\ pc' = "idle"
        /\ Completes =>
              /\ result'.hadSession
              /\ result'.lookups = 0
              /\ result'.attempts = 0
              /\ result'.prompts = 0]_vars

\* A call has ended with an error envelope while the session was memoized,
\* and the session is still there.
C11_Witness ==
    /\ api # NoApi
    /\ result.hadSession
    /\ result.outcome = "returned"
    /\ HasError(result.envelope)
    /\ arrived >= 2

\* C12: a failure of _get_api (credentials absent, login rejected, 2FA code
\* rejected) is not memoized.  It leaves no session stored, and the tool
\* call that ends next has found no session, has read the Keychain again
\* and, with both credentials stored, has logged in again.
C12_FailureNotMemoized ==
    /\ result.outcome = "raised" => api = NoApi
    /\ (Completed /\ result.after.outcome = "raised") =>
          /\ ~result.hadSession
          /\ result.lookups = 1
          /\ result.configured => result.attempts = 1

\* The call after a rejected login has logged in and memoized its session.
C12_Witness ==
    /\ result.after.outcome = "raised"
    /\ result.after.exc.msg = MsgLoginFailed
    /\ result.outcome = "returned"
    /\ result.lookups = 1
    /\ result.attempts = 1
    /\ api # NoApi

\* C13: when the login asks for a second factor, one invocation prompts
\* once and reads one code: after the code is read the invocation ends
\* without a second prompt; a rejected code makes it fail with no session
\* memoized; and a memoized session is trusted exactly when it was
\* established with an accepted code.
C13_OneCode ==
    /\ [](Completed => result.prompts <= 1)
    /\ [](result.exc.msg = Msg2faRejected =>
            /\ result.outcome = "raised"
            /\ result.prompts = 1
            /\ api = NoApi)
    /\ [](api # NoApi => (api.trusted <=> api.challenged))
    /\ [][(pc = "awaiting_code" /\ pc' # pc) => (pc' = "idle" /\ Completes)]_vars

\* A call has failed on a rejected code after one prompt.
C13_Witness ==
    /\ result.outcome = "raised"
    /\ result.exc.msg = Msg2faRejected
    /\ result.login = "2fa"
    /\ result.prompts = 1
    /\ api = NoApi
    /\ pc = "idle"

\* C14: the wait for the verification code is bounded: a tool call that
\* waits at the prompt ends, also when the operator never types a code.
C14_PromptWaitEnds == (pc = "awaiting_code") ~> (pc = "idle")

\* C15: in the reminders adapter, an operation whose callback (the access
\* request of _get_store, the fetch of list_reminders) does not run within
\* the bounded wait ends with an error, not with a returned value such as an
\* empty list.
C15_TimeoutIsError ==
    (/\ ret.fn \in {"list_lists", "list_reminders", "create_reminder", "complete_reminder"}
     /\ (ret.env.perm = "timeout" \/ ret.env.fetch = "timeout")) =>
        ret.exc # NoExc

\* C16: when the search of a calendar that list_events or get_event queries
\* fails (network or protocol failure), the call ends with an error and not
\* with a value: neither a list without that calendar's events nor None.
C16_SearchFailureIsError ==
    /\ (/\ ret.fn = "list_events"
        /\ \E c \in ret.env.down : ret.args.calendar_uid \in {None, c}) =>
            ret.exc # NoExc
    /\ (/\ ret.fn = "get_event"
        /\ Calendars[1].id \in ret.env.down) =>
            ret.exc # NoExc

\* C17: list_events and create_event called with a calendar_uid that names
\* no calendar of the account (credentials valid, server reachable) end with
\* an error whose message names that identifier, never with a value.
C17_UnknownCalendarIsError ==
    (/\ ret.fn \in {"list_events", "create_event"}
     /\ ret.args.access = OkAccess
     /\ ret.args.calendar_uid \notin CalendarIds \cup {None}) =>
        /\ ret.exc # NoExc
        /\ ret.exc.msg = "Calendar '" \o ret.args.calendar_uid \o "' not found."

\* C18: a send_message call in which the SMTP server refused any recipient
\* is not reported as plain "sent".
C18_RefusalIsNotSent ==
    (/\ ret.fn = "send_message"
     /\ ret.exc = NoExc
     /\ Range(Recipients(ret.args.to, ret.args.cc, ret.args.bcc)) \cap ret.env.refused # {}) =>
        ret.value.item.status # "sent"

\* C19: complete_reminder returns True only if the reminder is stored as
\* completed when it returns.
C19_TrueMeansStored ==
    (/\ ret.fn = "complete_reminder"
     /\ ret.exc = NoExc
     /\ ret.value.flag) =>
        rem[ret.args.uid].state = "done"

====
